---- MODULE Spec2Model ----
(***************************************************************************)
(* SQL guard and bounded query execution of app.py: guard_sql, run_sql and *)
(* the step-5 handler that calls them.  Texts are sequences of characters  *)
(* (one-character strings); the regular expressions are matched character  *)
(* by character, exactly as the patterns are written in the source.        *)
(***************************************************************************)
EXTENDS Integers, Sequences, FiniteSets, TLC

(* ------------------------------ bounds --------------------------------- *)
MaxChunks == 3
MaxRows == 3
MaxLimit == 2
MaxElapsedMs == 1

(* --------------------------- configuration ----------------------------- *)
SQL_ROW_LIMIT == 500

(* ---------------------------- characters ------------------------------- *)
BSL == "\\"
DQ == "\""

LowerMap ==
  ("A" :> "a") @@ ("B" :> "b") @@ ("C" :> "c") @@ ("D" :> "d") @@ ("E" :> "e") @@
  ("F" :> "f") @@ ("G" :> "g") @@ ("H" :> "h") @@ ("I" :> "i") @@ ("J" :> "j") @@
  ("K" :> "k") @@ ("L" :> "l") @@ ("M" :> "m") @@ ("N" :> "n") @@ ("O" :> "o") @@
  ("P" :> "p") @@ ("Q" :> "q") @@ ("R" :> "r") @@ ("S" :> "s") @@ ("T" :> "t") @@
  ("U" :> "u") @@ ("V" :> "v") @@ ("W" :> "w") @@ ("X" :> "x") @@ ("Y" :> "y") @@
  ("Z" :> "z")

\* re.IGNORECASE: a character is compared through its lower-case form
Lower(c) == IF c \in DOMAIN LowerMap THEN LowerMap[c] ELSE c

\* characters removed by str.strip()
IsSpace(c) == c \in {" ", "\t", "\n", "\r", "\f"}

DigitChar == <<"0","1","2","3","4","5","6","7","8","9">>

RECURSIVE Digits(_)
Digits(n) == IF n < 10 THEN <<DigitChar[n + 1]>>
             ELSE Digits(n \div 10) \o <<DigitChar[(n % 10) + 1]>>

\* str(int(limit)) as the f-string formats it
IntToStr(n) == IF n < 0 THEN <<"-">> \o Digits(0 - n) ELSE Digits(n)

(* ------------------------- string operations --------------------------- *)
RECURSIVE LStrip(_)
LStrip(t) == IF t # <<>> /\ IsSpace(Head(t)) THEN LStrip(Tail(t)) ELSE t

RECURSIVE RStrip(_)
RStrip(t) == IF t # <<>> /\ IsSpace(t[Len(t)]) THEN RStrip(SubSeq(t, 1, Len(t) - 1)) ELSE t

\* str.strip()
Strip(t) == RStrip(LStrip(t))

\* str.rstrip(';')
RECURSIVE RStripSemi(_)
RStripSemi(t) == IF t # <<>> /\ t[Len(t)] = ";" THEN RStripSemi(SubSeq(t, 1, Len(t) - 1)) ELSE t

\* s[:-1]
DropLast(t) == IF t = <<>> THEN <<>> ELSE SubSeq(t, 1, Len(t) - 1)

\* ';' in s
HasSemi(t) == \E i \in 1..Len(t) : t[i] = ";"

\* rows[:n] (Python slice with a possibly zero or negative stop)
SliceTo(s, n) ==
  IF n >= 0 THEN SubSeq(s, 1, IF n < Len(s) THEN n ELSE Len(s))
  ELSE SubSeq(s, 1, Len(s) + n)

(* ----------------------- regular-expression pieces --------------------- *)
\* the literal lit (given in lower case) occurs in t at position i, ignoring case
LitAt(t, i, lit) ==
  /\ i >= 1
  /\ i + Len(lit) - 1 <= Len(t)
  /\ \A j \in 1..Len(lit) : Lower(t[i + j - 1]) = lit[j]

\* length of the run of the letter s (either case) starting at position i: s* / s+
RECURSIVE RunS(_, _)
RunS(t, i) == IF i >= 1 /\ i <= Len(t) /\ Lower(t[i]) = "s" THEN 1 + RunS(t, i + 1) ELSE 0

kwWith == <<"w","i","t","h">>
kwSelect == <<"s","e","l","e","c","t">>
kwFrom == <<"f","r","o","m">>
kwPublic == <<"p","u","b","l","i","c">>
kwView == <<"p","u","r","c","h","a","s","e","a","l","l","v","i","e","w">>
kwLimit == <<"l","i","m","i","t">>

ForbiddenVerbs == {
  <<"i","n","s","e","r","t">>,
  <<"u","p","d","a","t","e">>,
  <<"d","e","l","e","t","e">>,
  <<"d","r","o","p">>,
  <<"a","l","t","e","r">>,
  <<"t","r","u","n","c","a","t","e">>,
  <<"c","r","e","a","t","e">>,
  <<"g","r","a","n","t">>,
  <<"r","e","v","o","k","e">>,
  <<"c","o","m","m","i","t">>,
  <<"r","o","l","l","b","a","c","k">> }

\* the two pattern characters \\b of the source: a backslash, then the letter b
BslB == <<BSL, "b">>

\* _SQL_ALLOW_RE = r'^(\\s*(with|select)\\b)', IGNORECASE:
\* start of text, a backslash, any number of letters s, with or select,
\* a backslash, the letter b
SQL_ALLOW_RE(t) ==
  /\ LitAt(t, 1, <<BSL>>)
  /\ \E k \in 0..RunS(t, 2) :
       \E kw \in {kwWith, kwSelect} : LitAt(t, 2 + k, kw \o BslB)

\* _SQL_FORBID_RE = r'\\b(insert|...|rollback)\\b', IGNORECASE:
\* a backslash, the letter b, a verb, a backslash, the letter b
SQL_FORBID_RE(t) ==
  \E i \in 1..Len(t) : \E v \in ForbiddenVerbs : LitAt(t, i, BslB \o v \o BslB)

\* the tail of _SQL_VIEW_RE from position p on: \\. \\s* \"? PurchaseAllView
ViewTailAt(t, p) ==
  /\ LitAt(t, p, <<BSL>>)
  /\ p + 1 <= Len(t) /\ t[p + 1] # "\n"
  /\ LitAt(t, p + 2, <<BSL>>)
  /\ LET q == p + 3 + RunS(t, p + 3)
     IN  \/ LitAt(t, q, kwView)
         \/ LitAt(t, q, <<DQ>> \o kwView)

\* _SQL_VIEW_RE = r'from\\s+public\\s*\\.\\s*\"?PurchaseAllView\"?', IGNORECASE:
\* from, a backslash, one or more s, public, a backslash, any number of s,
\* a backslash, any character but newline, a backslash, any number of s,
\* an optional double quote, PurchaseAllView (and an optional double quote)
SQL_VIEW_RE(t) ==
  \E i \in 1..Len(t) :
    /\ LitAt(t, i, kwFrom \o <<BSL>>)
    /\ LET r == RunS(t, i + 5)
       IN  /\ r >= 1
           /\ LitAt(t, i + 5 + r, kwPublic \o <<BSL>>)
           /\ ViewTailAt(t, i + 12 + r + RunS(t, i + 12 + r))

\* re.search(r'\\blimit\\b', sql, IGNORECASE): a backslash, b, limit, a backslash, b
LIMIT_RE(t) == \E i \in 1..Len(t) : LitAt(t, i, BslB \o kwLimit \o BslB)

(* ------------------------------ guard_sql ------------------------------ *)
\* The raised ValueError is represented by the kind of its message.
guard_sql(t) ==
  IF ~SQL_ALLOW_RE(t) THEN [ok |-> FALSE, reason |-> "NotAReadStatement"]
  ELSE IF SQL_FORBID_RE(t) THEN [ok |-> FALSE, reason |-> "ForbiddenOperation"]
  ELSE IF ~SQL_VIEW_RE(t) THEN [ok |-> FALSE, reason |-> "UnauthorizedTarget"]
  ELSE IF HasSemi(DropLast(Strip(t))) THEN [ok |-> FALSE, reason |-> "MultipleStatements"]
  ELSE [ok |-> TRUE, sql |-> Strip(t)]

\* the text appended by the f-string: a backslash, the letter n, LIMIT, a space
LimitClause == <<BSL, "n", "L", "I", "M", "I", "T", " ">>

\* lines 100-101 of run_sql: the statement that will be sent
ForceLimit(s, lim) ==
  IF ~LIMIT_RE(s) THEN RStripSemi(s) \o LimitClause \o IntToStr(lim) \o <<";">>
  ELSE s

(* ------------------------------ inputs --------------------------------- *)
\* pieces of statement text the submitted form is assembled from
txtSelect == <<"S","E","L","E","C","T"," ","*"," ">>
txtRawSelect == <<"\\","s","e","l","e","c","t","\\","b"," ">>
txtFromView == <<"F","R","O","M"," ","p","u","b","l","i","c",".","\"","P","u","r","c","h","a","s","e","A","l","l","V","i","e","w","\"">>
txtRawFromView == <<"f","r","o","m","\\","s","s","P","u","b","l","i","c","\\","\\",".","\\","s","P","u","r","c","h","a","s","e","A","l","l","V","i","e","w">>
txtLimit == <<" ","L","I","M","I","T"," ","5">>
txtRawLimit == <<" ","\\","b","L","i","m","i","t","\\","b"," ","5">>
txtUpdate == <<" ","u","p","d","a","t","e"," ","x">>
txtRawDrop == <<" ","\\","b","D","R","O","P","\\","b">>
txtSemi == <<";">>
txtSpace == <<" ">>
txtJoin == <<" ","J","O","I","N"," ","o","t","h","e","r">>
txtSuffix == <<"X">>

Chunks == << txtSelect, txtRawSelect, txtFromView, txtRawFromView, txtLimit,
             txtRawLimit, txtUpdate, txtRawDrop, txtSemi, txtSpace, txtJoin,
             txtSuffix >>

RECURSIVE Concat(_, _)
Concat(f, k) == IF k = 0 THEN <<>> ELSE Concat(f, k - 1) \o Chunks[f[k]]

\* the row limits the form can carry (the empty field falls back to SQL_ROW_LIMIT)
Limits == (0..MaxLimit) \cup {SQL_ROW_LIMIT}

\* messages of the exceptions the driver can raise
ConnectError == "connection refused"
CursorError == "cursor failed"
ExecuteError == "statement failed"
FetchError == "fetch failed"

\* the rows the data store hands back: n records with the column id
FetchedRows(n) == [i \in 1..n |-> [id |-> i]]

\* list(preview[0].keys()) if preview else []
ColumnsOf(preview) == IF preview # <<>> THEN <<"id">> ELSE <<>>

NoValue == [none |-> TRUE]

(* ------------------------------- state --------------------------------- *)
VARIABLES
  pc,              \* position of the step-5 request inside step / run_sql
  psycopg2,        \* TRUE iff the driver module was imported
  sql_text,        \* the text passed to run_sql
  limit,           \* the limit passed to run_sql
  sql,             \* run_sql's local sql: the statement to send
  conn,            \* run_sql's local conn: "none", "open" or "closed"
  rows,            \* the rows fetched
  exc,             \* the message of the exception being handled
  ret,             \* the value run_sql is returning
  res,             \* the handler's res, once run_sql has returned
  step3_sql_text,  \* session state written back by the handler
  connectCalls,    \* number of psycopg2.connect calls
  executeCalls,    \* number of cur.execute calls
  executedSql,     \* the statement given to cur.execute
  committed        \* TRUE iff the transaction was committed

vars == << pc, psycopg2, sql_text, limit, sql, conn, rows, exc, ret, res,
           step3_sql_text, connectCalls, executeCalls, executedSql, committed >>

Init ==
  /\ pc = "idle"
  /\ psycopg2 \in BOOLEAN
  /\ sql_text = <<>>
  /\ limit = SQL_ROW_LIMIT
  /\ sql = <<>>
  /\ conn = "none"
  /\ rows = <<>>
  /\ exc = ""
  /\ ret = NoValue
  /\ res = NoValue
  /\ step3_sql_text = <<>>
  /\ connectCalls = 0
  /\ executeCalls = 0
  /\ executedSql = <<>>
  /\ committed = FALSE

(* ------------------------------ actions -------------------------------- *)
\* step(5), POST run_sql: read the form and call run_sql
step_post ==
  /\ pc = "idle"
  /\ \E k \in 0..MaxChunks : \E f \in [1..k -> 1..Len(Chunks)] :
       LET form == Concat(f, k)
       IN  sql_text' = IF form # <<>> THEN form ELSE Strip(step3_sql_text)
  /\ limit' \in Limits
  /\ pc' = "run_sql"
  /\ UNCHANGED << psycopg2, sql, conn, rows, exc, ret, res, step3_sql_text,
                  connectCalls, executeCalls, executedSql, committed >>

\* run_sql_begin with the guard's verdict ignored: every text goes on to connect
run_sql_begin_unguarded ==
  /\ pc = "run_sql"
  /\ IF ~psycopg2
       THEN /\ ret' = [error |-> "psycopg2 missing"]
            /\ pc' = "return"
            /\ UNCHANGED << sql, exc >>
       ELSE /\ sql' = ForceLimit(Strip(sql_text), limit)
            /\ pc' = "connect"
            /\ UNCHANGED << exc, ret >>
  /\ UNCHANGED << psycopg2, sql_text, limit, conn, rows, res, step3_sql_text,
                  connectCalls, executeCalls, executedSql, committed >>

\* run_sql up to the try block: driver check, guard_sql, forced limit
run_sql_begin ==
  /\ pc = "run_sql"
  /\ IF ~psycopg2
       THEN /\ ret' = [error |-> "psycopg2 missing"]
            /\ pc' = "return"
            /\ UNCHANGED << sql, exc >>
       ELSE LET g == guard_sql(sql_text)
            IN  IF ~g.ok
                  THEN /\ exc' = g.reason
                       /\ pc' = "raised"
                       /\ UNCHANGED << sql, ret >>
                  ELSE /\ sql' = ForceLimit(g.sql, limit)
                       /\ pc' = "connect"
                       /\ UNCHANGED << exc, ret >>
  /\ UNCHANGED << psycopg2, sql_text, limit, conn, rows, res, step3_sql_text,
                  connectCalls, executeCalls, executedSql, committed >>

\* conn = psycopg2.connect(POSTGRES_DSN)
db_connect ==
  /\ pc = "connect"
  /\ connectCalls' = connectCalls + 1
  /\ \/ /\ conn' = "open"
        /\ pc' = "cursor"
        /\ UNCHANGED exc
     \/ /\ exc' = ConnectError
        /\ pc' = "except"
        /\ UNCHANGED conn
  /\ UNCHANGED << psycopg2, sql_text, limit, sql, rows, ret, res, step3_sql_text,
                  executeCalls, executedSql, committed >>

\* conn.autocommit = False; with conn.cursor(...) as cur
db_cursor ==
  /\ pc = "cursor"
  /\ \/ /\ pc' = "execute"
        /\ UNCHANGED exc
     \/ /\ exc' = CursorError
        /\ pc' = "except"
  /\ UNCHANGED << psycopg2, sql_text, limit, sql, conn, rows, ret, res,
                  step3_sql_text, connectCalls, executeCalls, executedSql, committed >>

\* cur.execute(sql)
db_execute ==
  /\ pc = "execute"
  /\ executeCalls' = executeCalls + 1
  /\ executedSql' = sql
  /\ \/ /\ pc' = "fetch"
        /\ UNCHANGED exc
     \/ /\ exc' = ExecuteError
        /\ pc' = "except"
  /\ UNCHANGED << psycopg2, sql_text, limit, sql, conn, rows, ret, res,
                  step3_sql_text, connectCalls, committed >>

\* rows = cur.fetchall()
db_fetchall ==
  /\ pc = "fetch"
  /\ \/ /\ \E n \in 0..MaxRows : rows' = FetchedRows(n)
        /\ pc' = "success"
        /\ UNCHANGED exc
     \/ /\ exc' = FetchError
        /\ pc' = "except"
        /\ UNCHANGED rows
  /\ UNCHANGED << psycopg2, sql_text, limit, sql, conn, ret, res, step3_sql_text,
                  connectCalls, executeCalls, executedSql, committed >>

\* SuccessRecord with the preview not cut to the limit
SuccessRecord_uncapped(rs, lim, ms) ==
  [ ok |-> TRUE, elapsed_ms |-> ms, row_count |-> Len(rs),
    preview_limit |-> lim, columns |-> ColumnsOf(rs), rows |-> rs ]

\* the success record run_sql builds from the fetched rows
SuccessRecord(rs, lim, ms) ==
  LET preview == SliceTo(rs, lim)
  IN  [ ok |-> TRUE, elapsed_ms |-> ms, row_count |-> Len(rs),
        preview_limit |-> lim, columns |-> ColumnsOf(preview), rows |-> preview ]

\* elapsed, preview = rows[:limit], return {...}
run_sql_success ==
  /\ pc = "success"
  /\ \E ms \in 0..MaxElapsedMs : ret' = SuccessRecord(rows, limit, ms)
  /\ pc' = "finally"
  /\ UNCHANGED << psycopg2, sql_text, limit, sql, conn, rows, exc, res,
                  step3_sql_text, connectCalls, executeCalls, executedSql, committed >>

\* run_sql_except with a retry: the handler goes back to connect
run_sql_except_retry ==
  /\ pc = "except"
  /\ ret' = [error |-> exc]
  /\ pc' = "connect"
  /\ UNCHANGED << psycopg2, sql_text, limit, sql, conn, rows, exc, res,
                  step3_sql_text, connectCalls, executeCalls, executedSql, committed >>

\* except Exception as e: return {"error": str(e)}
run_sql_except ==
  /\ pc = "except"
  /\ ret' = [error |-> exc]
  /\ pc' = "finally"
  /\ UNCHANGED << psycopg2, sql_text, limit, sql, conn, rows, exc, res,
                  step3_sql_text, connectCalls, executeCalls, executedSql, committed >>

\* run_sql_finally with the close forgotten
run_sql_finally_noclose ==
  /\ pc = "finally"
  /\ pc' = "return"
  /\ UNCHANGED << psycopg2, sql_text, limit, sql, conn, rows, exc, ret, res,
                  step3_sql_text, connectCalls, executeCalls, executedSql, committed >>

\* finally: if conn: conn.close()
run_sql_finally ==
  /\ pc = "finally"
  /\ conn' = IF conn = "open" THEN "closed" ELSE conn
  /\ pc' = "return"
  /\ UNCHANGED << psycopg2, sql_text, limit, sql, rows, exc, ret, res,
                  step3_sql_text, connectCalls, executeCalls, executedSql, committed >>

\* res = run_sql(...); set_state(step5 result); set_state(step3_sql_text)
step_store ==
  /\ pc = "return"
  /\ res' = ret
  /\ step3_sql_text' = sql_text
  /\ pc' = "done"
  /\ UNCHANGED << psycopg2, sql_text, limit, sql, conn, rows, exc, ret,
                  connectCalls, executeCalls, executedSql, committed >>

Next ==
  \/ step_post
  \/ run_sql_begin
  \/ db_connect
  \/ db_cursor
  \/ db_execute
  \/ db_fetchall
  \/ run_sql_success
  \/ run_sql_except
  \/ run_sql_finally
  \/ step_store

Spec == Init /\ [][Next]_vars

(* ------------------- the rules as the specification states them ------- *)
WordChars == {"a","b","c","d","e","f","g","h","i","j","k","l","m","n","o","p","q",
              "r","s","t","u","v","w","x","y","z","0","1","2","3","4","5","6","7",
              "8","9","_"}

IsWordChar(c) == Lower(c) \in WordChars

\* the word w (lower case) stands at position i of t as a whole word, any case
WordAt(t, i, w) ==
  /\ LitAt(t, i, w)
  /\ (i = 1 \/ ~IsWordChar(t[i - 1]))
  /\ (i + Len(w) > Len(t) \/ ~IsWordChar(t[i + Len(w)]))

\* length of the run of whitespace starting at position i
RECURSIVE RunSpace(_, _)
RunSpace(t, i) == IF i >= 1 /\ i <= Len(t) /\ IsSpace(t[i]) THEN 1 + RunSpace(t, i + 1) ELSE 0

\* rule 1: after leading whitespace the text begins with the word WITH or SELECT
BeginsWithReadKeyword(t) ==
  LET s == LStrip(t)
  IN  \E kw \in {kwWith, kwSelect} : WordAt(s, 1, kw)

\* rule 2: a forbidden verb occurs as a whole word
ContainsForbiddenVerb(t) ==
  \E i \in 1..Len(t) : \E v \in ForbiddenVerbs : WordAt(t, i, v)

\* at position i: public, optional whitespace, a dot, optional whitespace,
\* an optional double quote, PurchaseAllView; the result is the position
\* after the name, or 0 if there is no such reference at i
ViewNameEnd(t, i) ==
  IF ~LitAt(t, i, kwPublic) THEN 0
  ELSE LET d == i + 6 + RunSpace(t, i + 6)
       IN  IF ~LitAt(t, d, <<".">>) THEN 0
           ELSE LET n == d + 1 + RunSpace(t, d + 1)
                    m == IF LitAt(t, n, <<DQ>>) THEN n + 1 ELSE n
                IN  IF LitAt(t, m, kwView) THEN m + 15 ELSE 0

\* rule 3: the text contains FROM, whitespace, and the view reference
ReferencesView(t) ==
  \E i \in 1..Len(t) :
    /\ LitAt(t, i, kwFrom)
    /\ RunSpace(t, i + 4) >= 1
    /\ ViewNameEnd(t, i + 4 + RunSpace(t, i + 4)) > 0

\* rule 4: a semicolon stands somewhere before the last character of the trimmed text
HasInternalSemicolon(t) == HasSemi(DropLast(Strip(t)))

\* the reason of the lowest-numbered rule the text fails ("none" if it fails none)
FirstFailingRule(t) ==
  IF ~BeginsWithReadKeyword(t) THEN "NotAReadStatement"
  ELSE IF ContainsForbiddenVerb(t) THEN "ForbiddenOperation"
  ELSE IF ~ReferencesView(t) THEN "UnauthorizedTarget"
  ELSE IF HasInternalSemicolon(t) THEN "MultipleStatements"
  ELSE "none"

BoolToNat(b) == IF b THEN 1 ELSE 0

FailingRuleCount(t) ==
  BoolToNat(~BeginsWithReadKeyword(t)) + BoolToNat(ContainsForbiddenVerb(t))
    + BoolToNat(~ReferencesView(t)) + BoolToNat(HasInternalSemicolon(t))

\* the view reference at position j names exactly the view: a quoted name
\* is closed by its quote, an unquoted one is not continued by a word character
ExactViewAt(t, j) ==
  LET e == ViewNameEnd(t, j)
  IN  /\ e > 0
      /\ IF LitAt(t, e - 16, <<DQ>>)
           THEN LitAt(t, e, <<DQ>>)
           ELSE e > Len(t) \/ ~IsWordChar(t[e])

\* the name following FROM or JOIN at position i is something other than
\* exactly the view public."PurchaseAllView"
OtherObjectAt(t, i, kw) ==
  /\ WordAt(t, i, kw)
  /\ LET r == RunSpace(t, i + Len(kw))
         j == i + Len(kw) + r
     IN  /\ r >= 1
         /\ j <= Len(t)
         /\ ~ExactViewAt(t, j)

ReferencesOtherObject(t) ==
  \E i \in 1..Len(t) : \E kw \in {kwFrom, <<"j","o","i","n">>} : OtherObjectAt(t, i, kw)

\* the word LIMIT occurs as a whole word
ContainsLimitWord(t) == \E i \in 1..Len(t) : WordAt(t, i, kwLimit)

\* the request has gone through run_sql's guard
Guarded == pc \notin {"idle", "run_sql"}

Rejected == ~guard_sql(sql_text).ok

(* ------------------------------- claims -------------------------------- *)

\* C1: run_sql calls psycopg2.connect and cur.execute only for a text that
\* guard_sql has accepted; for a rejected text neither is ever called.
C1_GuardBeforeDataStore ==
  (connectCalls > 0 \/ executeCalls > 0 \/ conn # "none") => guard_sql(sql_text).ok

C1_Witness == executeCalls = 1 /\ pc = "fetch" /\ guard_sql(sql_text).ok

\* C2: when the validator rejects the text, run_sql returns a record whose
\* only field is error; the rejection does not escape as a raised fault.
C2_RejectionReturnsFailure ==
  (Guarded /\ Rejected) => (pc \in {"return", "done"} /\ DOMAIN ret = {"error"})

\* C3: a text that begins with SELECT or WITH, has no forbidden verb, has the
\* FROM public."PurchaseAllView" reference and no semicolon but an optional
\* trailing one is accepted, and the accepted text is the trimmed input.
C3_WellFormedAccepted ==
  (Guarded /\ psycopg2 /\ FirstFailingRule(sql_text) = "none")
    => (pc # "raised" /\ guard_sql(sql_text) = [ok |-> TRUE, sql |-> Strip(sql_text)])

\* C4: a text that fails more than one rule is rejected with the reason of
\* the lowest-numbered rule it fails.
C4_FirstFailingRuleWins ==
  (Guarded /\ psycopg2 /\ FailingRuleCount(sql_text) >= 2)
    => (pc = "raised" /\ exc = FirstFailingRule(sql_text))

\* C5: a text containing a forbidden verb as a whole word is never accepted,
\* and when it begins with SELECT or WITH the reason is ForbiddenOperation.
C5_ForbiddenVerbRejected ==
  (Guarded /\ psycopg2 /\ ContainsForbiddenVerb(sql_text))
    => (pc = "raised" /\ (BeginsWithReadKeyword(sql_text) => exc = "ForbiddenOperation"))

\* C6: a statement that names an object other than public."PurchaseAllView"
\* after FROM or JOIN (another table, or a name with PurchaseAllView as a
\* prefix) is rejected.
C6_OnlyTheViewReferenced ==
  (Guarded /\ psycopg2 /\ ReferencesOtherObject(sql_text)) => pc = "raised"

\* C7: a text that passes rules 1-3 and has a semicolon before its last
\* character is rejected with MultipleStatements; an accepted text is not
\* empty and has no semicolon except possibly as its last character.
C7_InternalSemicolonRejected ==
  /\ (Guarded /\ psycopg2 /\ FirstFailingRule(sql_text) = "MultipleStatements")
       => (pc = "raised" /\ exc = "MultipleStatements")
  /\ (Guarded /\ psycopg2 /\ pc # "raised")
       => (Strip(sql_text) # <<>> /\ ~HasInternalSemicolon(sql_text))

\* the statement C8 expects for an accepted text and a limit, without the
\* closing semicolon
ExpectedStatement(s, lim) ==
  IF ~ContainsLimitWord(s)
    THEN (IF s # <<>> /\ s[Len(s)] = ";" THEN DropLast(s) ELSE s)
           \o <<"\n", "L", "I", "M", "I", "T", " ">> \o IntToStr(lim)
    ELSE s

\* C8: the statement executed is the accepted text unchanged when it has a
\* whole-word LIMIT, and otherwise the accepted text without its trailing
\* semicolon followed by a newline and LIMIT <limit> (a closing semicolon
\* is allowed).
C8_StatementSent ==
  executeCalls > 0
    => LET e == ExpectedStatement(Strip(sql_text), limit)
       IN  executedSql = e \/ (~ContainsLimitWord(Strip(sql_text)) /\ executedSql = e \o <<";">>)

Min(a, b) == IF a < b THEN a ELSE b

\* C9: for a limit >= 1 every success record has at most limit rows,
\* exactly min(row_count, preview_limit) rows, preview_limit equal to the
\* limit passed in and row_count equal to the number of rows fetched.
C9_PreviewBounded ==
  ("ok" \in DOMAIN ret /\ limit >= 1)
    => /\ Len(ret.rows) <= limit
       /\ Len(ret.rows) = Min(ret.row_count, ret.preview_limit)
       /\ ret.preview_limit = limit
       /\ ret.row_count = Len(rows)

C9_Witness ==
  pc = "done" /\ "ok" \in DOMAIN res /\ limit = 1 /\ Len(rows) = MaxRows /\ Len(res.rows) = 1

\* C10: when run_sql has returned (or raised) no connection is open, and
\* the transaction is never committed; a failed connect leaves no connection.
C10_ConnectionReleased ==
  /\ pc \in {"return", "done", "raised"} => conn # "open"
  /\ (connectCalls > 0 /\ conn = "none") => exc = ConnectError
  /\ ~committed

C10_Witness ==
  pc = "return" /\ conn = "closed" /\ ret = [error |-> FetchError]

\* the messages of the failures of connect, cursor, execute and fetch
DriverErrors == {ConnectError, CursorError, ExecuteError, FetchError}

\* C11: for a validated statement a failure of connect, execute or fetch
\* makes run_sql return the record whose only field error is that failure's
\* text, after one attempt: connect and execute are each called at most
\* once, a failed connect is followed by no execute, and a returned record
\* is either the error record or the success record, never both.
C11_SingleAttemptFailure ==
  /\ connectCalls <= 1
  /\ executeCalls <= 1
  /\ executeCalls <= connectCalls
  /\ (exc = ConnectError => executeCalls = 0)
  /\ (pc \in {"return", "done"} /\ psycopg2)
       => /\ exc \in DriverErrors => ret = [error |-> exc]
          /\ exc \notin DriverErrors => DOMAIN ret = DOMAIN SuccessRecord(rows, limit, 0)
          /\ ~("error" \in DOMAIN ret /\ "ok" \in DOMAIN ret)
  /\ pc = "done" => res = ret

C11_Witness ==
  /\ pc = "done"
  /\ res = [error |-> ExecuteError]
  /\ connectCalls = 1
  /\ executeCalls = 1
  /\ conn = "closed"

====
